---- MODULE Spec2Model ----
(***************************************************************************)
(* Model of src/main.py: the CasioCheckoutAutomation checkout pipeline.    *)
(* The program is one sequential thread; pc is its position.  Every call   *)
(* on the browser session is a step whose outcome (resolved, timed out,    *)
(* intercepted, raised) is chosen by the remote document.                  *)
(***************************************************************************)
EXTENDS Integers, Sequences, FiniteSets, TLC

\* ---- bounds ----
ValLen == 2        \* characters in every configured value
MaxMissing == 1    \* at most this many required settings are absent
MaxInterrupts == 1 \* operator interrupts delivered while stages execute

\* ---- program constants ----
Retries == 3       \* _wait_and_click: retries = 3
Attempts == 3      \* _refresh_and_retry: attempts = 3

VARIABLES
  pc,
  \* main / construction
  config, driver, error_occurred, keep_browser_open, browserTouched,
  navigated, interrupted, answer,
  \* run_checkout
  stageIdx, started, stageResult, loggedStep, rcPending, checkoutResult,
  \* _wait_and_click
  wcRet, wcResult, wcResolved, wcClicks, retries, coveredAll, wcFail,
  clickErrors,
  \* add_to_cart / _refresh_and_retry
  atcWcCalls, primaryFail, rrAttempt, rrLog, rrResult, tailIdx,
  \* handle_login
  cookieResult, loginIssued, loginResults, urlWaited,
  \* fill_checkout_details
  fieldIdx, elemCap, elemPrior, formValue, written, verified, contClicked,
  \* handle_payment
  checkboxOutcome, frameDepth, cardIdx, charIdx, cardValue, cardPrior,
  lastEvents, hpPending, restoreRaised,
  \* process exit status, interrupts delivered during stage execution
  exitStatus, stageInterrupts

mainVars == <<config, driver, error_occurred, keep_browser_open,
              browserTouched, navigated, interrupted, answer>>
pipeVars == <<stageIdx, started, stageResult, loggedStep, rcPending,
              checkoutResult>>
wcVars == <<wcRet, wcResult, wcResolved, wcClicks, retries, coveredAll, wcFail,
            clickErrors>>
atcVars == <<atcWcCalls, primaryFail, rrAttempt, rrLog, rrResult, tailIdx>>
hlVars == <<cookieResult, loginIssued, loginResults, urlWaited>>
fcVars == <<fieldIdx, elemCap, elemPrior, formValue, written, verified,
           contClicked>>
hpVars == <<checkboxOutcome, frameDepth, cardIdx, charIdx, cardValue, cardPrior,
            lastEvents, hpPending, restoreRaised>>
sigVars == <<exitStatus, stageInterrupts>>
vars == <<pc, mainVars, pipeVars, wcVars, atcVars, hlVars, fcVars, hpVars,
          sigVars>>

\* ---- configuration -------------------------------------------------------

required_vars_noexpiry ==
  <<"USERNAME", "PASS", "PHONE", "POSTCODE", "STREET1", "STREET2",
    "CARD_NUMBER", "CARD_CVC">>

required_vars ==
  <<"USERNAME", "PASS", "PHONE", "POSTCODE", "STREET1", "STREET2",
    "CARD_NUMBER", "CARD_EXPIRY", "CARD_CVC">>

EnvNames ==
  {"USERNAME", "PASS", "PHONE", "POSTCODE", "STREET1", "STREET2",
   "CARD_NUMBER", "CARD_EXPIRY", "CARD_CVC"}

EnvIndex(v) ==
  CASE v = "USERNAME" -> 1 [] v = "PASS" -> 2 [] v = "PHONE" -> 3
    [] v = "POSTCODE" -> 4 [] v = "STREET1" -> 5 [] v = "STREET2" -> 6
    [] v = "CARD_NUMBER" -> 7 [] v = "CARD_EXPIRY" -> 8 [] v = "CARD_CVC" -> 9

\* a set value of setting v: ValLen characters, distinct per setting
FullValue(v) == [i \in 1..ValLen |-> 10 * EnvIndex(v) + i]

\* the environment in which the settings of `missing` are unset or empty
Environment(missing) ==
  [v \in EnvNames |-> IF v \in missing THEN <<>> ELSE FullValue(v)]

getenv(v) == config[v]

missing_vars ==
  {required_vars[i] : i \in {j \in 1..Len(required_vars) :
                                getenv(required_vars[j]) = <<>>}}

\* ---- form data -----------------------------------------------------------

\* form_fields of fill_checkout_details, in dict order
form_fields_swapped == <<"telephone", "street[0]", "postcode", "street[1]">>

form_fields == <<"telephone", "postcode", "street[0]", "street[1]">>

FieldNames == {"telephone", "postcode", "street[0]", "street[1]"}

FieldEnv(f) ==
  CASE f = "telephone" -> "PHONE" [] f = "postcode" -> "POSTCODE"
    [] f = "street[0]" -> "STREET1" [] f = "street[1]" -> "STREET2"

\* the card inputs of handle_payment, in the order they are typed
card_fields == <<"card_input", "expiry_input", "cvv_input">>

CardNames == {"card_input", "expiry_input", "cvv_input"}

CardEnv(f) ==
  CASE f = "card_input" -> "CARD_NUMBER" [] f = "expiry_input" -> "CARD_EXPIRY"
    [] f = "cvv_input" -> "CARD_CVC"

\* what a located input may already hold, and how many characters it accepts
PriorContents == {<<>>, <<0>>}

FieldCaps == {ValLen - 1, ValLen + 1}

Truncate(s, n) == SubSeq(s, 1, IF Len(s) < n THEN Len(s) ELSE n)

\* element.clear()
Clear_keep(cur) == cur

Clear(cur) == <<>>

\* element.send_keys(text) on an input that accepts cap characters
SendKeys(cur, text, cap) == Truncate(cur \o text, cap)

\* simulate_typing's script, once per character: element.value += char
TypeChar_assign(cur, ch) == <<ch>>

TypeChar(cur, ch) == Append(cur, ch)

\* ---- run_checkout --------------------------------------------------------

steps_swapped ==
  <<"add_to_cart", "fill_checkout_details", "handle_login", "handle_payment">>

steps ==
  <<"add_to_cart", "handle_login", "fill_checkout_details", "handle_payment">>

StepNames ==
  {"add_to_cart", "handle_login", "fill_checkout_details", "handle_payment"}

StepEntry(s) ==
  CASE s = "add_to_cart" -> "atc_get"
    [] s = "handle_login" -> "hl_continue"
    [] s = "fill_checkout_details" -> "fc_locate"
    [] s = "handle_payment" -> "hp_checkbox"

\* `if not step():` -- the loop stops on any result but success
StepHalts_never(r) == FALSE

StepHalts(r) == r # "ok"

\* what a stage returns when an Exception reaches its outermost handler
StageOnException_escape(s) == IF s = "handle_login" THEN "raised" ELSE "fail"

StageOnException(s) == "fail"

\* a stage returns r to the step loop
StageReturn(s, r) ==
  /\ stageResult' = [stageResult EXCEPT ![s] = r]
  /\ pc' = "rc_step_ret"
  /\ UNCHANGED <<stageIdx, started, loggedStep, rcPending, checkoutResult>>

StageRaise(s) == StageReturn(s, StageOnException(s))

Init ==
  /\ pc = "main_construct"
  /\ \E m \in SUBSET EnvNames :
       /\ Cardinality(m) <= MaxMissing
       /\ config = Environment(m)
  /\ driver = "none"
  /\ error_occurred = FALSE
  /\ keep_browser_open = FALSE
  /\ browserTouched = FALSE
  /\ navigated = FALSE
  /\ interrupted = FALSE
  /\ answer = "none"
  /\ stageIdx = 0
  /\ started = <<>>
  /\ stageResult = [s \in StepNames |-> "none"]
  /\ loggedStep = "none"
  /\ rcPending = "none"
  /\ checkoutResult = "none"
  /\ wcRet = "none"
  /\ wcResult = "none"
  /\ wcResolved = FALSE
  /\ wcClicks = 0
  /\ retries = 0
  /\ coveredAll = TRUE
  /\ wcFail = "none"
  /\ atcWcCalls = 0
  /\ primaryFail = "none"
  /\ rrAttempt = 0
  /\ rrLog = <<>>
  /\ rrResult = "none"
  /\ tailIdx = 0
  /\ cookieResult = "none"
  /\ loginIssued = <<>>
  /\ loginResults = <<>>
  /\ urlWaited = FALSE
  /\ fieldIdx = 0
  /\ elemCap = 0
  /\ elemPrior = <<>>
  /\ formValue = [f \in FieldNames |-> <<>>]
  /\ written = <<>>
  /\ verified = <<>>
  /\ contClicked = FALSE
  /\ checkboxOutcome = "none"
  /\ frameDepth = 0
  /\ cardIdx = 0
  /\ charIdx = 0
  /\ cardValue = [f \in CardNames |-> <<>>]
  /\ cardPrior = [f \in CardNames |-> <<>>]
  /\ lastEvents = <<>>
  /\ hpPending = "none"
  /\ restoreRaised = FALSE
  /\ clickErrors = 0
  /\ exitStatus = "none"
  /\ stageInterrupts = 0

\* __init__: self.error_occurred = True
InitialErrorOccurred_false == FALSE

InitialErrorOccurred == TRUE

\* main: CasioCheckoutAutomation(...) -- __init__ then _load_environment
Construct ==
  /\ pc = "main_construct"
  /\ error_occurred' = InitialErrorOccurred
  /\ IF missing_vars # {}
       THEN pc' = "config_error"
       ELSE pc' = "rc_init"
  /\ UNCHANGED <<config, driver, keep_browser_open, browserTouched, navigated,
                 interrupted, answer>>
  /\ UNCHANGED <<pipeVars, wcVars, atcVars, hlVars, fcVars, hpVars>>
  /\ exitStatus' = IF missing_vars # {} THEN 1 ELSE exitStatus
  /\ UNCHANGED stageInterrupts

\* run_checkout: self._initialize_driver()
InitializeDriver ==
  /\ pc = "rc_init"
  /\ browserTouched' = TRUE
  /\ \E o \in {"ok", "no_session", "error_after_session"} :
       /\ driver' = IF o = "no_session" THEN "none" ELSE "open"
       /\ IF o = "ok"
            THEN /\ pc' = "rc_loop"
                 /\ UNCHANGED <<error_occurred, rcPending>>
            ELSE /\ pc' = "rc_finally"
                 /\ error_occurred' = TRUE
                 /\ rcPending' = "fail"
  /\ UNCHANGED <<config, keep_browser_open, navigated, interrupted, answer>>
  /\ UNCHANGED <<stageIdx, started, stageResult, loggedStep, checkoutResult>>
  /\ UNCHANGED <<wcVars, atcVars, hlVars, fcVars, hpVars>>
  /\ UNCHANGED sigVars

\* the locals of the helper calls of the stage that has returned are gone
FreshLocals ==
  /\ wcRet' = "none"
  /\ wcResult' = "none"
  /\ wcResolved' = FALSE
  /\ wcClicks' = 0
  /\ retries' = 0
  /\ coveredAll' = TRUE
  /\ wcFail' = "none"
  /\ clickErrors' = 0
  /\ atcWcCalls' = 0
  /\ primaryFail' = "none"
  /\ rrAttempt' = 0
  /\ rrLog' = <<>>
  /\ rrResult' = "none"
  /\ tailIdx' = 0
  /\ cookieResult' = "none"
  /\ loginIssued' = <<>>
  /\ loginResults' = <<>>
  /\ urlWaited' = FALSE
  /\ elemCap' = 0
  /\ elemPrior' = <<>>

\* for step in steps: step()
RunStep ==
  /\ pc = "rc_loop"
  /\ stageIdx < Len(steps)
  /\ stageIdx' = stageIdx + 1
  /\ started' = Append(started, steps[stageIdx + 1])
  /\ pc' = StepEntry(steps[stageIdx + 1])
  /\ FreshLocals
  /\ UNCHANGED <<stageResult, loggedStep, rcPending, checkoutResult>>
  /\ UNCHANGED <<fieldIdx, formValue, written, verified, contClicked>>
  /\ UNCHANGED <<mainVars, hpVars>>
  /\ UNCHANGED sigVars

\* the loop body after step() came back
StepReturned ==
  /\ pc = "rc_step_ret"
  /\ LET s == steps[stageIdx]
         r == stageResult[s]
     IN IF r = "raised"
          THEN /\ error_occurred' = TRUE
               /\ rcPending' = "fail"
               /\ pc' = "rc_finally"
               /\ UNCHANGED loggedStep
          ELSE IF StepHalts(r)
            THEN /\ loggedStep' = s
                 /\ rcPending' = "fail"
                 /\ pc' = "rc_finally"
                 /\ UNCHANGED error_occurred
            ELSE /\ pc' = "rc_loop"
                 /\ UNCHANGED <<loggedStep, rcPending, error_occurred>>
  /\ UNCHANGED <<config, driver, keep_browser_open, browserTouched, navigated,
                 interrupted, answer>>
  /\ UNCHANGED <<stageIdx, started, stageResult, checkoutResult>>
  /\ UNCHANGED <<wcVars, atcVars, hlVars, fcVars, hpVars>>
  /\ UNCHANGED sigVars

\* all steps done: return True
StepsCompleted ==
  /\ pc = "rc_loop"
  /\ stageIdx = Len(steps)
  /\ rcPending' = "ok"
  /\ pc' = "rc_finally"
  /\ UNCHANGED <<stageIdx, started, stageResult, loggedStep, checkoutResult>>
  /\ UNCHANGED <<mainVars, wcVars, atcVars, hlVars, fcVars, hpVars>>
  /\ UNCHANGED sigVars

\* run_checkout's finally block, then the return to main; a pending
\* KeyboardInterrupt goes on to main's `except KeyboardInterrupt`
CheckoutFinally ==
  /\ pc = "rc_finally"
  /\ IF driver # "none" /\ ~keep_browser_open /\ ~error_occurred
       THEN /\ pc' = "rc_hold"
            /\ UNCHANGED checkoutResult
       ELSE IF rcPending = "interrupt"
         THEN /\ pc' = "main_prompt"
              /\ UNCHANGED checkoutResult
         ELSE /\ pc' = "main_after_rc"
              /\ checkoutResult' = rcPending
  /\ UNCHANGED <<stageIdx, started, stageResult, loggedStep, rcPending>>
  /\ UNCHANGED <<mainVars, wcVars, atcVars, hlVars, fcVars, hpVars>>
  /\ UNCHANGED sigVars

\* main: if success: ... while True: pass   else: log
MainAfterCheckout ==
  /\ pc = "main_after_rc"
  /\ pc' = IF checkoutResult = "ok" THEN "main_hold" ELSE "main_prompt"
  /\ UNCHANGED <<mainVars, pipeVars, wcVars, atcVars, hlVars, fcVars, hpVars>>
  /\ UNCHANGED sigVars

\* main: KeyboardInterrupt in the hold-open loop
MainHoldInterrupt ==
  /\ pc = "main_hold"
  /\ interrupted' = TRUE
  /\ pc' = "main_prompt"
  /\ UNCHANGED <<config, driver, error_occurred, keep_browser_open,
                 browserTouched, navigated, answer>>
  /\ UNCHANGED <<pipeVars, wcVars, atcVars, hlVars, fcVars, hpVars>>
  /\ UNCHANGED sigVars

\* `if user_input.lower() == 'y' and automation.driver:`
ShouldQuit_always(a, d) == d # "none"

ShouldQuit(a, d) == a = "y" /\ d # "none"

\* main: finally: input("Close browser? (y/n): ")
MainPrompt ==
  /\ pc = "main_prompt"
  /\ \E a \in {"y", "n"} :
       /\ answer' = a
       /\ driver' = IF ShouldQuit(a, driver) THEN "quit" ELSE driver
  /\ pc' = "exit"
  /\ UNCHANGED <<config, error_occurred, keep_browser_open, browserTouched,
                 navigated, interrupted>>
  /\ UNCHANGED <<pipeVars, wcVars, atcVars, hlVars, fcVars, hpVars>>
  /\ exitStatus' = 0
  /\ UNCHANGED stageInterrupts

\* ---- session outcomes ----------------------------------------------------

\* WebDriverWait(...).until(...): resolves, TimeoutException, other error
WaitOutcomes == {"ok", "timeout", "error"}

\* element.click() on a target whose hit-test point is covered (ov) or not
ClickOutcomes(ov) == IF ov THEN {"intercepted"} ELSE {"ok", "error"}

\* any other session call: returns or raises
CallOutcomes == {"ok", "error"}

\* ---- _wait_and_click -----------------------------------------------------

\* retries -= 1
RetriesLeft_skip(r) == r - 2

RetriesLeft(r) == r - 1

\* `except ElementClickInterceptedException:` -- what the loop retries on
RetryOn_any(o) == o \in {"intercepted", "error"}

RetryOn(o) == o = "intercepted"

\* `return False` after the retry loop
ExhaustedResult_true == "true"

ExhaustedResult == "false"

\* self._wait_and_click(...) called; ret is where the caller resumes
CallWaitAndClick(ret) ==
  /\ pc' = "wc_wait"
  /\ wcRet' = ret
  /\ wcResult' = "none"
  /\ wcResolved' = FALSE
  /\ wcClicks' = 0
  /\ retries' = 0
  /\ coveredAll' = TRUE
  /\ wcFail' = "none"
  /\ clickErrors' = 0

\* WebDriverWait(...).until(EC.element_to_be_clickable(...))
WcWait ==
  /\ pc = "wc_wait"
  /\ \E o \in WaitOutcomes :
       CASE o = "ok" ->
              /\ wcResolved' = TRUE
              /\ pc' = "wc_hit_test"
              /\ UNCHANGED <<wcResult, wcFail>>
         [] o = "timeout" ->
              /\ wcResult' = "false"
              /\ wcFail' = "timeout"
              /\ pc' = wcRet
              /\ UNCHANGED wcResolved
         [] o = "error" ->
              /\ wcResult' = "raise"
              /\ pc' = wcRet
              /\ UNCHANGED <<wcResolved, wcFail>>
  /\ UNCHANGED <<wcRet, wcClicks, retries, coveredAll, clickErrors>>
  /\ UNCHANGED <<mainVars, pipeVars, atcVars, hlVars, fcVars, hpVars>>
  /\ UNCHANGED sigVars

\* the elementFromPoint script, _scroll_to_element when it answers false,
\* then retries = 3
WcHitTest ==
  /\ pc = "wc_hit_test"
  /\ \E o \in CallOutcomes, ov \in BOOLEAN :
       IF o = "error"
         THEN /\ wcResult' = "raise"
              /\ pc' = wcRet
              /\ UNCHANGED <<retries, coveredAll>>
         ELSE /\ coveredAll' = (coveredAll /\ ov)
              /\ retries' = Retries
              /\ pc' = "wc_click"
              /\ UNCHANGED wcResult
  /\ UNCHANGED <<wcRet, wcResolved, wcClicks, wcFail, clickErrors>>
  /\ UNCHANGED <<mainVars, pipeVars, atcVars, hlVars, fcVars, hpVars>>
  /\ UNCHANGED sigVars

\* one pass of `while retries > 0: element.click()`
WcClick ==
  /\ pc = "wc_click"
  /\ retries > 0
  /\ wcClicks' = wcClicks + 1
  /\ \E ov \in BOOLEAN : \E o \in ClickOutcomes(ov) :
       /\ coveredAll' = (coveredAll /\ ov)
       /\ clickErrors' = IF o = "error" THEN clickErrors + 1 ELSE clickErrors
       /\ CASE o = "ok" ->
                 /\ wcResult' = "true"
                 /\ pc' = wcRet
                 /\ UNCHANGED <<retries, wcFail>>
            [] o # "ok" /\ ~RetryOn(o) ->
                 /\ wcResult' = "raise"
                 /\ pc' = wcRet
                 /\ UNCHANGED <<retries, wcFail>>
            [] o # "ok" /\ RetryOn(o) ->
                 /\ retries' = RetriesLeft(retries)
                 /\ IF RetriesLeft(retries) > 0
                      THEN /\ pc' = "wc_click"
                           /\ UNCHANGED <<wcResult, wcFail>>
                      ELSE /\ wcResult' = ExhaustedResult
                           /\ wcFail' = "intercepted"
                           /\ pc' = wcRet
  /\ UNCHANGED <<wcRet, wcResolved>>
  /\ UNCHANGED <<mainVars, pipeVars, atcVars, hlVars, fcVars, hpVars>>
  /\ UNCHANGED sigVars

\* ---- add_to_cart ---------------------------------------------------------

\* `if not self._wait_and_click(...)`: the fallback runs on any False
NeedsFallback(res, kind) == res = "false"

\* for attempt in range(attempts)
HasNextAttempt_short(a) == a < Attempts - 1

HasNextAttempt(a) == a < Attempts

\* the calls after the add-to-cart click, each inside the outer try
AtcTailOps ==
  <<"wait_modal", "wait_checkout_btn", "click_checkout", "wait_cart_url",
    "wait_proceed_btn", "click_proceed">>

\* the outcomes of one straight-line session call
TailOutcomes(op) ==
  CASE op \in {"click_checkout", "click_proceed", "click_continue"} ->
         {"ok", "intercepted", "error"}
    [] op = "scroll_continue" -> CallOutcomes
    [] OTHER -> WaitOutcomes

\* self.driver.get(self.product_url), then the primary _wait_and_click
AtcGet ==
  /\ pc = "atc_get"
  /\ navigated' = TRUE
  /\ \E o \in CallOutcomes :
       IF o = "ok"
         THEN /\ CallWaitAndClick("atc_after_primary")
              /\ atcWcCalls' = atcWcCalls + 1
              /\ UNCHANGED pipeVars
         ELSE /\ StageRaise("add_to_cart")
              /\ UNCHANGED <<wcVars, atcWcCalls>>
  /\ UNCHANGED <<config, driver, error_occurred, keep_browser_open,
                 browserTouched, interrupted, answer>>
  /\ UNCHANGED <<primaryFail, rrAttempt, rrLog, rrResult, tailIdx>>
  /\ UNCHANGED <<hlVars, fcVars, hpVars>>
  /\ UNCHANGED sigVars

\* the primary click came back
AtcAfterPrimary ==
  /\ pc = "atc_after_primary"
  /\ primaryFail' = wcFail
  /\ CASE wcResult = "raise" ->
            /\ StageRaise("add_to_cart")
            /\ UNCHANGED <<rrAttempt, rrLog, tailIdx>>
       [] wcResult = "true" ->
            /\ pc' = "atc_tail"
            /\ tailIdx' = 1
            /\ UNCHANGED <<pipeVars, rrAttempt, rrLog>>
       [] wcResult = "false" ->
            IF NeedsFallback(wcResult, wcFail)
              THEN /\ pc' = "rr_refresh"
                   /\ rrAttempt' = 0
                   /\ rrLog' = <<>>
                   /\ UNCHANGED <<pipeVars, tailIdx>>
              ELSE /\ StageReturn("add_to_cart", "fail")
                   /\ UNCHANGED <<rrAttempt, rrLog, tailIdx>>
  /\ UNCHANGED <<atcWcCalls, rrResult>>
  /\ UNCHANGED <<mainVars, wcVars, hlVars, fcVars, hpVars>>
  /\ UNCHANGED sigVars

\* the end of one pass of the for loop of _refresh_and_retry
RRNext(log) ==
  IF HasNextAttempt(rrAttempt + 1)
    THEN /\ rrAttempt' = rrAttempt + 1
         /\ rrLog' = Append(log, "sleep")
         /\ pc' = "rr_refresh"
         /\ UNCHANGED rrResult
    ELSE /\ rrAttempt' = rrAttempt + 1
         /\ rrLog' = log
         /\ rrResult' = "false"
         /\ pc' = "atc_after_rr"

\* self.driver.refresh(); time.sleep(delay)
RRRefresh ==
  /\ pc = "rr_refresh"
  /\ \E o \in CallOutcomes :
       IF o = "ok"
         THEN /\ rrLog' = rrLog \o <<"refresh", "sleep">>
              /\ pc' = "rr_wait"
              /\ UNCHANGED <<rrAttempt, rrResult>>
         ELSE RRNext(Append(rrLog, "refresh_error"))
  /\ UNCHANGED <<atcWcCalls, primaryFail, tailIdx>>
  /\ UNCHANGED <<mainVars, pipeVars, wcVars, hlVars, fcVars, hpVars>>
  /\ UNCHANGED sigVars

\* WebDriverWait(self.driver, 10).until(presence...), is_displayed/is_enabled
RRWait ==
  /\ pc = "rr_wait"
  /\ \E o \in WaitOutcomes \cup {"hidden"} :
       CASE o = "ok" ->
              /\ rrLog' = Append(rrLog, "wait_ok")
              /\ rrResult' = "true"
              /\ pc' = "atc_after_rr"
              /\ UNCHANGED rrAttempt
         [] o = "timeout" -> RRNext(Append(rrLog, "wait_timeout"))
         [] o = "error" -> RRNext(Append(rrLog, "wait_error"))
         [] o = "hidden" -> RRNext(Append(rrLog, "wait_hidden"))
  /\ UNCHANGED <<atcWcCalls, primaryFail, tailIdx>>
  /\ UNCHANGED <<mainVars, pipeVars, wcVars, hlVars, fcVars, hpVars>>
  /\ UNCHANGED sigVars

\* `if not self._refresh_and_retry(): return False`, else the second click
AtcAfterRefresh ==
  /\ pc = "atc_after_rr"
  /\ IF rrResult = "true"
       THEN /\ CallWaitAndClick("atc_after_second")
            /\ atcWcCalls' = atcWcCalls + 1
            /\ UNCHANGED pipeVars
       ELSE /\ StageReturn("add_to_cart", "fail")
            /\ UNCHANGED <<wcVars, atcWcCalls>>
  /\ UNCHANGED <<primaryFail, rrAttempt, rrLog, rrResult, tailIdx>>
  /\ UNCHANGED <<mainVars, hlVars, fcVars, hpVars>>
  /\ UNCHANGED sigVars

\* the second click came back
AtcAfterSecond ==
  /\ pc = "atc_after_second"
  /\ CASE wcResult = "raise" ->
            /\ StageRaise("add_to_cart")
            /\ UNCHANGED tailIdx
       [] wcResult = "true" ->
            /\ pc' = "atc_tail"
            /\ tailIdx' = 1
            /\ UNCHANGED pipeVars
       [] wcResult = "false" ->
            /\ StageReturn("add_to_cart", "fail")
            /\ UNCHANGED tailIdx
  /\ UNCHANGED <<atcWcCalls, primaryFail, rrAttempt, rrLog, rrResult>>
  /\ UNCHANGED <<mainVars, wcVars, hlVars, fcVars, hpVars>>
  /\ UNCHANGED sigVars

\* modal wait, checkout button, cart url, proceed button
AtcTail ==
  /\ pc = "atc_tail"
  /\ \E o \in TailOutcomes(AtcTailOps[tailIdx]) :
       IF o = "ok"
         THEN IF tailIdx = Len(AtcTailOps)
                THEN /\ StageReturn("add_to_cart", "ok")
                     /\ UNCHANGED tailIdx
                ELSE /\ tailIdx' = tailIdx + 1
                     /\ UNCHANGED <<pc, pipeVars>>
         ELSE /\ StageRaise("add_to_cart")
              /\ UNCHANGED tailIdx
  /\ UNCHANGED <<atcWcCalls, primaryFail, rrAttempt, rrLog, rrResult>>
  /\ UNCHANGED <<mainVars, wcVars, hlVars, fcVars, hpVars>>
  /\ UNCHANGED sigVars

\* ---- handle_login --------------------------------------------------------

\* _fill_form_field: wait, clear, send_keys; any Exception gives False
FillOutcomes == {"ok", "wait_timeout", "wait_error", "clear_error", "send_error"}

\* `all([a, b, c])`: the list is built whole, so the next call is issued
\* whatever the previous one returned
IssuesNext_shortcircuit(prevOk) == prevOk

IssuesNext(prevOk) == TRUE

\* self._wait_and_click(By.CSS_SELECTOR, "button[data-role='opc-continue']")
HlStart ==
  /\ pc = "hl_continue"
  /\ CallWaitAndClick("hl_after_continue")
  /\ UNCHANGED <<mainVars, pipeVars, atcVars, hlVars, fcVars, hpVars>>
  /\ UNCHANGED sigVars

\* `if not ...: return False`, then the cookie-consent click (timeout=5)
HlAfterContinue ==
  /\ pc = "hl_after_continue"
  /\ CASE wcResult = "raise" ->
            /\ StageRaise("handle_login")
            /\ UNCHANGED wcVars
       [] wcResult = "false" ->
            /\ StageReturn("handle_login", "fail")
            /\ UNCHANGED wcVars
       [] wcResult = "true" ->
            /\ CallWaitAndClick("hl_after_cookie")
            /\ UNCHANGED pipeVars
  /\ UNCHANGED <<mainVars, atcVars, hlVars, fcVars, hpVars>>
  /\ UNCHANGED sigVars

\* try: self._wait_and_click(By.ID, "onetrust-accept-btn-handler") / except:
\* pass.  The value the helper returns is dropped and whatever it raises is
\* swallowed, so no outcome of the consent click ends handle_login.
CookieAborts_checked(res) == res # "true"

CookieAborts(res) == FALSE

\* the cookie click came back: its result is dropped, a raise is swallowed
HlAfterCookie ==
  /\ pc = "hl_after_cookie"
  /\ cookieResult' = wcResult
  /\ IF CookieAborts(wcResult)
       THEN StageReturn("handle_login", "fail")
       ELSE /\ pc' = "hl_fill_user"
            /\ UNCHANGED pipeVars
  /\ UNCHANGED <<loginIssued, loginResults, urlWaited>>
  /\ UNCHANGED <<mainVars, wcVars, atcVars, fcVars, hpVars>>
  /\ UNCHANGED sigVars

\* self._fill_form_field(By.ID, "username", os.getenv('USERNAME'))
HlFillUser ==
  /\ pc = "hl_fill_user"
  /\ \E o \in FillOutcomes :
       /\ loginIssued' = Append(loginIssued, "username")
       /\ loginResults' = Append(loginResults, o = "ok")
       /\ IF IssuesNext(o = "ok")
            THEN /\ pc' = "hl_fill_pass"
                 /\ UNCHANGED pipeVars
            ELSE StageReturn("handle_login", "fail")
  /\ UNCHANGED <<cookieResult, urlWaited>>
  /\ UNCHANGED <<mainVars, wcVars, atcVars, fcVars, hpVars>>
  /\ UNCHANGED sigVars

\* self._fill_form_field(By.ID, "password", os.getenv('PASS')), then the
\* call self._wait_and_click(By.ID, "idpwbtn")
HlFillPass ==
  /\ pc = "hl_fill_pass"
  /\ \E o \in FillOutcomes :
       /\ loginResults' = Append(loginResults, o = "ok")
       /\ IF IssuesNext(o = "ok")
            THEN /\ loginIssued' = loginIssued \o <<"password", "idpwbtn">>
                 /\ CallWaitAndClick("hl_after_login")
                 /\ UNCHANGED pipeVars
            ELSE /\ loginIssued' = Append(loginIssued, "password")
                 /\ StageReturn("handle_login", "fail")
                 /\ UNCHANGED wcVars
  /\ UNCHANGED <<cookieResult, urlWaited>>
  /\ UNCHANGED <<mainVars, atcVars, fcVars, hpVars>>
  /\ UNCHANGED sigVars

\* `if not all([...]): return False`
HlAfterLogin ==
  /\ pc = "hl_after_login"
  /\ CASE wcResult = "raise" ->
            /\ StageRaise("handle_login")
            /\ UNCHANGED loginResults
       [] wcResult # "raise" ->
            /\ loginResults' = Append(loginResults, wcResult = "true")
            /\ IF wcResult = "true" /\ \A i \in 1..Len(loginResults) : loginResults[i]
                 THEN /\ pc' = "hl_url"
                      /\ UNCHANGED pipeVars
                 ELSE StageReturn("handle_login", "fail")
  /\ UNCHANGED <<cookieResult, loginIssued, urlWaited>>
  /\ UNCHANGED <<mainVars, wcVars, atcVars, fcVars, hpVars>>
  /\ UNCHANGED sigVars

\* WebDriverWait(self.driver, 20).until(EC.url_contains("casio.com/sg"))
HlUrl ==
  /\ pc = "hl_url"
  /\ urlWaited' = TRUE
  /\ \E o \in WaitOutcomes :
       IF o = "ok"
         THEN StageReturn("handle_login", "ok")
         ELSE StageRaise("handle_login")
  /\ UNCHANGED <<cookieResult, loginIssued, loginResults>>
  /\ UNCHANGED <<mainVars, wcVars, atcVars, fcVars, hpVars>>
  /\ UNCHANGED sigVars

\* ---- fill_checkout_details -----------------------------------------------

\* `if element.get_attribute('value') != value: raise ValueError`
VerifyOk_unchecked(actual, intended) == TRUE

VerifyOk(actual, intended) == actual = intended

FcTailOps ==
  <<"wait_continue_btn", "scroll_continue", "wait_continue_clickable",
    "click_continue">>

\* WebDriverWait(...).until(EC.presence_of_element_located((By.NAME, field)))
FcLocate ==
  /\ pc = "fc_locate"
  /\ LET f == form_fields[fieldIdx + 1]
     IN \E o \in WaitOutcomes, prior \in PriorContents, cap \in FieldCaps :
          IF o = "ok"
            THEN /\ formValue' = [formValue EXCEPT ![f] = prior]
                 /\ elemCap' = cap
                 /\ elemPrior' = prior
                 /\ pc' = "fc_scroll"
                 /\ UNCHANGED pipeVars
            ELSE /\ StageReturn("fill_checkout_details", "fail")
                 /\ UNCHANGED <<formValue, elemCap, elemPrior>>
  /\ UNCHANGED <<fieldIdx, written, verified, contClicked, tailIdx>>
  /\ UNCHANGED <<atcWcCalls, primaryFail, rrAttempt, rrLog, rrResult>>
  /\ UNCHANGED <<mainVars, wcVars, hlVars, hpVars>>
  /\ UNCHANGED sigVars

\* smart_scroll(element)
FcScroll ==
  /\ pc = "fc_scroll"
  /\ \E o \in CallOutcomes :
       IF o = "ok"
         THEN /\ pc' = "fc_write"
              /\ UNCHANGED pipeVars
         ELSE StageReturn("fill_checkout_details", "fail")
  /\ UNCHANGED <<mainVars, wcVars, atcVars, hlVars, fcVars, hpVars>>
  /\ UNCHANGED sigVars

\* element.clear(); element.send_keys(value)
FcWrite ==
  /\ pc = "fc_write"
  /\ LET f == form_fields[fieldIdx + 1]
         value == getenv(FieldEnv(f))
     IN \E o \in {"ok", "clear_error", "send_error"} :
          CASE o = "clear_error" ->
                 /\ StageReturn("fill_checkout_details", "fail")
                 /\ UNCHANGED <<formValue, written>>
            [] o = "send_error" ->
                 /\ formValue' = [formValue EXCEPT ![f] = Clear(formValue[f])]
                 /\ written' = Append(written, f)
                 /\ StageReturn("fill_checkout_details", "fail")
            [] o = "ok" ->
                 /\ formValue' = [formValue EXCEPT
                      ![f] = SendKeys(Clear(formValue[f]), value, elemCap)]
                 /\ written' = Append(written, f)
                 /\ pc' = "fc_verify"
                 /\ UNCHANGED pipeVars
  /\ UNCHANGED <<fieldIdx, elemCap, elemPrior, verified, contClicked, tailIdx>>
  /\ UNCHANGED <<atcWcCalls, primaryFail, rrAttempt, rrLog, rrResult>>
  /\ UNCHANGED <<mainVars, wcVars, hlVars, hpVars>>
  /\ UNCHANGED sigVars

\* the read-back and the comparison; then the next field or the button
FcVerify ==
  /\ pc = "fc_verify"
  /\ LET f == form_fields[fieldIdx + 1]
         value == getenv(FieldEnv(f))
     IN \E o \in CallOutcomes :
          IF o = "ok" /\ VerifyOk(formValue[f], value)
            THEN /\ verified' = Append(verified, f)
                 /\ fieldIdx' = fieldIdx + 1
                 /\ IF fieldIdx + 1 < Len(form_fields)
                      THEN /\ pc' = "fc_locate"
                           /\ UNCHANGED tailIdx
                      ELSE /\ pc' = "fc_tail"
                           /\ tailIdx' = 1
                 /\ UNCHANGED pipeVars
            ELSE /\ StageReturn("fill_checkout_details", "fail")
                 /\ UNCHANGED <<verified, fieldIdx, tailIdx>>
  /\ UNCHANGED <<elemCap, elemPrior, formValue, written, contClicked>>
  /\ UNCHANGED <<atcWcCalls, primaryFail, rrAttempt, rrLog, rrResult>>
  /\ UNCHANGED <<mainVars, wcVars, hlVars, hpVars>>
  /\ UNCHANGED sigVars

\* the continue button: presence, smart_scroll, clickable, click
FcTail ==
  /\ pc = "fc_tail"
  /\ contClicked' = (contClicked \/ FcTailOps[tailIdx] = "click_continue")
  /\ \E o \in TailOutcomes(FcTailOps[tailIdx]) :
       IF o = "ok"
         THEN IF tailIdx = Len(FcTailOps)
                THEN /\ StageReturn("fill_checkout_details", "ok")
                     /\ UNCHANGED tailIdx
                ELSE /\ tailIdx' = tailIdx + 1
                     /\ UNCHANGED <<pc, pipeVars>>
         ELSE /\ StageReturn("fill_checkout_details", "fail")
              /\ UNCHANGED tailIdx
  /\ UNCHANGED <<fieldIdx, elemCap, elemPrior, formValue, written, verified>>
  /\ UNCHANGED <<atcWcCalls, primaryFail, rrAttempt, rrLog, rrResult>>
  /\ UNCHANGED <<mainVars, wcVars, hlVars, hpVars>>
  /\ UNCHANGED sigVars

\* ---- handle_payment ------------------------------------------------------

\* the events the typing script dispatches after `element.value += char`
TypingEvents_keysfirst == <<"keydown", "keypress", "keyup", "input">>

TypingEvents == <<"input", "keydown", "keypress", "keyup">>

\* the context after the finally block's switch_to.default_content()
FinallyDepth_norestore(o, depth) == depth

FinallyDepth(o, depth) == IF o = "ok" THEN 0 ELSE depth

\* an Exception reaches `except Exception as e: ... return False`
HpRaise ==
  /\ hpPending' = StageOnException("handle_payment")
  /\ pc' = "hp_finally"

\* the next card input, or the switch back to the main content
HpAfterField ==
  /\ cardIdx' = cardIdx + 1
  /\ charIdx' = 0
  /\ pc' = IF cardIdx < Len(card_fields) THEN "hp_card_locate"
                                         ELSE "hp_switch_back"

\* try: ... billing checkbox ... except Exception as e: logging.warning(...).
\* A failed wait for the checkbox or a failed script call is logged and the
\* stage goes on to the payment iframe.
CheckboxAborts_unguarded(o) == o \in {"wait_timeout", "error"}

CheckboxAborts(o) == FALSE

\* the billing checkbox block; every Exception in it is only logged
HpCheckbox ==
  /\ pc = "hp_checkbox"
  /\ \E o \in {"set", "already_selected", "wait_timeout", "error"} :
       /\ checkboxOutcome' = o
       /\ IF CheckboxAborts(o)
            THEN HpRaise
            ELSE /\ pc' = "hp_iframe"
                 /\ UNCHANGED hpPending
  /\ UNCHANGED <<frameDepth, cardIdx, charIdx, cardValue, cardPrior,
                 lastEvents, restoreRaised>>
  /\ UNCHANGED <<mainVars, pipeVars, wcVars, atcVars, hlVars, fcVars>>
  /\ UNCHANGED sigVars

\* WebDriverWait(...).until(presence of the Stripe iframe)
HpIframe ==
  /\ pc = "hp_iframe"
  /\ \E o \in WaitOutcomes :
       IF o = "ok"
         THEN /\ pc' = "hp_switch"
              /\ UNCHANGED hpPending
         ELSE HpRaise
  /\ UNCHANGED <<checkboxOutcome, frameDepth, cardIdx, charIdx, cardValue,
                 cardPrior, lastEvents, restoreRaised>>
  /\ UNCHANGED <<mainVars, pipeVars, wcVars, atcVars, hlVars, fcVars>>
  /\ UNCHANGED sigVars

\* self.driver.switch_to.frame(stripe_iframe)
HpSwitch ==
  /\ pc = "hp_switch"
  /\ \E o \in CallOutcomes :
       IF o = "ok"
         THEN /\ frameDepth' = frameDepth + 1
              /\ cardIdx' = 1
              /\ pc' = "hp_card_locate"
              /\ UNCHANGED hpPending
         ELSE /\ HpRaise
              /\ UNCHANGED <<frameDepth, cardIdx>>
  /\ UNCHANGED <<checkboxOutcome, charIdx, cardValue, cardPrior, lastEvents,
                 restoreRaised>>
  /\ UNCHANGED <<mainVars, pipeVars, wcVars, atcVars, hlVars, fcVars>>
  /\ UNCHANGED sigVars

\* WebDriverWait (card number) or find_element (expiry, cvv)
HpCardLocate ==
  /\ pc = "hp_card_locate"
  /\ LET f == card_fields[cardIdx]
     IN \E o \in (IF cardIdx = 1 THEN WaitOutcomes ELSE CallOutcomes),
           prior \in PriorContents :
          IF o = "ok"
            THEN /\ cardValue' = [cardValue EXCEPT ![f] = prior]
                 /\ cardPrior' = [cardPrior EXCEPT ![f] = prior]
                 /\ pc' = "hp_card_click"
                 /\ UNCHANGED hpPending
            ELSE /\ HpRaise
                 /\ UNCHANGED <<cardValue, cardPrior>>
  /\ UNCHANGED <<checkboxOutcome, frameDepth, cardIdx, charIdx, lastEvents,
                 restoreRaised>>
  /\ UNCHANGED <<mainVars, pipeVars, wcVars, atcVars, hlVars, fcVars>>
  /\ UNCHANGED sigVars

\* card_input.click() -- no retry here, an intercepted click is an error
HpCardClick ==
  /\ pc = "hp_card_click"
  /\ \E o \in {"ok", "intercepted", "error"} :
       IF o = "ok"
         THEN /\ lastEvents' = <<>>
              /\ IF Len(getenv(CardEnv(card_fields[cardIdx]))) = 0
                   THEN HpAfterField
                   ELSE /\ pc' = "hp_type"
                        /\ charIdx' = 0
                        /\ UNCHANGED cardIdx
              /\ UNCHANGED hpPending
         ELSE /\ HpRaise
              /\ UNCHANGED <<charIdx, lastEvents, cardIdx>>
  /\ UNCHANGED <<checkboxOutcome, frameDepth, cardValue, cardPrior,
                 restoreRaised>>
  /\ UNCHANGED <<mainVars, pipeVars, wcVars, atcVars, hlVars, fcVars>>
  /\ UNCHANGED sigVars

\* one pass of `for char in text` of simulate_typing
HpType ==
  /\ pc = "hp_type"
  /\ LET f == card_fields[cardIdx]
         text == getenv(CardEnv(f))
     IN \E o \in CallOutcomes :
          IF o = "ok"
            THEN /\ cardValue' = [cardValue EXCEPT
                      ![f] = TypeChar(cardValue[f], text[charIdx + 1])]
                 /\ lastEvents' = Append(TypingEvents, "sleep")
                 /\ IF charIdx + 1 < Len(text)
                      THEN /\ charIdx' = charIdx + 1
                           /\ UNCHANGED <<pc, cardIdx>>
                      ELSE HpAfterField
                 /\ UNCHANGED hpPending
            ELSE /\ HpRaise
                 /\ UNCHANGED <<cardValue, lastEvents, charIdx, cardIdx>>
  /\ UNCHANGED <<checkboxOutcome, frameDepth, cardPrior, restoreRaised>>
  /\ UNCHANGED <<mainVars, pipeVars, wcVars, atcVars, hlVars, fcVars>>
  /\ UNCHANGED sigVars

\* self.driver.switch_to.default_content(); return True
HpSwitchBack ==
  /\ pc = "hp_switch_back"
  /\ \E o \in CallOutcomes :
       IF o = "ok"
         THEN /\ frameDepth' = 0
              /\ hpPending' = "ok"
              /\ pc' = "hp_finally"
         ELSE /\ HpRaise
              /\ UNCHANGED frameDepth
  /\ UNCHANGED <<checkboxOutcome, cardIdx, charIdx, cardValue, cardPrior,
                 lastEvents, restoreRaised>>
  /\ UNCHANGED <<mainVars, pipeVars, wcVars, atcVars, hlVars, fcVars>>
  /\ UNCHANGED sigVars

\* after the finally block: the pending return, or the KeyboardInterrupt
\* that is still in flight, which no handler of run_checkout catches
HpLeave ==
  IF hpPending = "interrupt"
    THEN /\ pc' = "rc_finally"
         /\ rcPending' = "interrupt"
         /\ UNCHANGED <<stageIdx, started, stageResult, loggedStep,
                        checkoutResult>>
    ELSE StageReturn("handle_payment", hpPending)

\* finally: try: switch_to.default_content() except: pass -- then the return
HpFinally ==
  /\ pc = "hp_finally"
  /\ \E o \in CallOutcomes :
       /\ frameDepth' = FinallyDepth(o, frameDepth)
       /\ restoreRaised' = (o = "error")
  /\ HpLeave
  /\ UNCHANGED <<checkboxOutcome, cardIdx, charIdx, cardValue, cardPrior,
                 lastEvents, hpPending>>
  /\ UNCHANGED <<mainVars, wcVars, atcVars, hlVars, fcVars>>
  /\ UNCHANGED sigVars

\* ---- KeyboardInterrupt while run_checkout executes ------------------------

WcLabels == {"wc_wait", "wc_hit_test", "wc_click"}

HpLabels ==
  {"hp_checkbox", "hp_iframe", "hp_switch", "hp_card_locate", "hp_card_click",
   "hp_type", "hp_switch_back"}

StageLabels ==
  WcLabels \cup HpLabels \cup
  {"atc_get", "atc_after_primary", "rr_refresh", "rr_wait", "atc_after_rr",
   "atc_after_second", "atc_tail", "hl_continue", "hl_after_continue",
   "hl_after_cookie", "hl_fill_user", "hl_fill_pass", "hl_after_login",
   "hl_url", "fc_locate", "fc_scroll", "fc_write", "fc_verify", "fc_tail",
   "hp_finally"}

\* the bare `except:` around the cookie-consent click catches BaseException
CookieSwallows == TRUE

\* the operator's interrupt arrives while a stage, or the hold loop of
\* run_checkout's finally block, is executing; `except Exception` does not
\* catch it, the two bare `except:` clauses do
StageInterrupt ==
  /\ pc \in StageLabels \cup {"rc_hold"}
  /\ stageInterrupts < MaxInterrupts
  /\ stageInterrupts' = stageInterrupts + 1
  /\ CASE pc = "rc_hold" ->
            /\ driver' = "quit"
            /\ checkoutResult' = rcPending
            /\ pc' = "main_after_rc"
            /\ UNCHANGED <<cookieResult, restoreRaised, hpPending, rcPending,
                           stageIdx, started, stageResult, loggedStep>>
       [] pc \in WcLabels /\ wcRet = "hl_after_cookie" /\ CookieSwallows ->
            /\ cookieResult' = "interrupt"
            /\ pc' = "hl_fill_user"
            /\ UNCHANGED <<driver, restoreRaised, hpPending, pipeVars>>
       [] pc = "hp_finally" ->
            /\ restoreRaised' = TRUE
            /\ HpLeave
            /\ UNCHANGED <<driver, cookieResult, hpPending>>
       [] pc \in HpLabels ->
            /\ hpPending' = "interrupt"
            /\ pc' = "hp_finally"
            /\ UNCHANGED <<driver, cookieResult, restoreRaised, pipeVars>>
       [] OTHER ->
            /\ rcPending' = "interrupt"
            /\ pc' = "rc_finally"
            /\ UNCHANGED <<driver, cookieResult, restoreRaised, hpPending,
                           stageIdx, started, stageResult, loggedStep,
                           checkoutResult>>
  /\ UNCHANGED <<config, error_occurred, keep_browser_open, browserTouched,
                 navigated, interrupted, answer>>
  /\ UNCHANGED <<loginIssued, loginResults, urlWaited>>
  /\ UNCHANGED <<checkboxOutcome, frameDepth, cardIdx, charIdx, cardValue,
                 cardPrior, lastEvents>>
  /\ UNCHANGED <<wcVars, atcVars, fcVars, exitStatus>>

\* ---- the program ---------------------------------------------------------

Next ==
  \/ Construct
  \/ InitializeDriver
  \/ RunStep
  \/ StepReturned
  \/ StepsCompleted
  \/ CheckoutFinally
  \/ MainAfterCheckout
  \/ MainHoldInterrupt
  \/ MainPrompt
  \/ WcWait
  \/ WcHitTest
  \/ WcClick
  \/ AtcGet
  \/ AtcAfterPrimary
  \/ RRRefresh
  \/ RRWait
  \/ AtcAfterRefresh
  \/ AtcAfterSecond
  \/ AtcTail
  \/ HlStart
  \/ HlAfterContinue
  \/ HlAfterCookie
  \/ HlFillUser
  \/ HlFillPass
  \/ HlAfterLogin
  \/ HlUrl
  \/ FcLocate
  \/ FcScroll
  \/ FcWrite
  \/ FcVerify
  \/ FcTail
  \/ HpCheckbox
  \/ HpIframe
  \/ HpSwitch
  \/ HpCardLocate
  \/ HpCardClick
  \/ HpType
  \/ HpSwitchBack
  \/ HpFinally
  \/ StageInterrupt

Spec == Init /\ [][Next]_vars

\* the steps the program takes by itself: every session call returns, times
\* out or raises; the operator's steps (interrupt, answer) are not forced
ProgramStep ==
  \/ Construct \/ InitializeDriver \/ RunStep \/ StepReturned
  \/ StepsCompleted \/ CheckoutFinally \/ MainAfterCheckout
  \/ WcWait \/ WcHitTest \/ WcClick
  \/ AtcGet \/ AtcAfterPrimary \/ RRRefresh \/ RRWait \/ AtcAfterRefresh
  \/ AtcAfterSecond \/ AtcTail
  \/ HlStart \/ HlAfterContinue \/ HlAfterCookie \/ HlFillUser \/ HlFillPass
  \/ HlAfterLogin \/ HlUrl
  \/ FcLocate \/ FcScroll \/ FcWrite \/ FcVerify \/ FcTail
  \/ HpCheckbox \/ HpIframe \/ HpSwitch \/ HpCardLocate \/ HpCardClick
  \/ HpType \/ HpSwitchBack \/ HpFinally

FairSpec == Init /\ [][Next]_vars /\ WF_vars(ProgramStep)

\* ---- properties ----------------------------------------------------------

\* C1: pipeline short-circuit.  When stage i of [add_to_cart, handle_login,
\* fill_checkout_details, handle_payment] has reported failure, stage i is
\* the last stage ever started and every earlier stage succeeded, run_checkout
\* does not return success, and once the step loop has seen the failure the
\* stage named in the log is stage i.
C1_ShortCircuit ==
  /\ \A i \in 1..4 :
       LET s == <<"add_to_cart", "handle_login", "fill_checkout_details",
                  "handle_payment">>[i]
       IN stageResult[s] = "fail" =>
            /\ Len(started) = i
            /\ started[i] = s
            /\ \A j \in 1..(i - 1) : stageResult[started[j]] = "ok"
            /\ rcPending # "ok"
            /\ checkoutResult # "ok"
            /\ pc # "rc_loop"
            /\ pc # "rc_step_ret" =>
                 /\ rcPending = "fail"
                 /\ loggedStep = s
            /\ pc \in {"main_after_rc", "main_prompt", "exit"} =>
                 checkoutResult = "fail"
  /\ loggedStep # "none" => stageResult[loggedStep] = "fail"

C1_Witness ==
  /\ checkoutResult = "fail"
  /\ stageResult["handle_login"] = "fail"
  /\ loggedStep = "handle_login"
  /\ started = <<"add_to_cart", "handle_login">>

\* C2: the stages start in the fixed order cart-entry, authentication,
\* address-details, payment-details, each at most once, a stage starts only
\* after its predecessor returned success, and run_checkout returns success
\* exactly when all four stages returned success.
C2_FixedOrder ==
  /\ Len(started) <= 4
  /\ started = SubSeq(<<"add_to_cart", "handle_login", "fill_checkout_details",
                        "handle_payment">>, 1, Len(started))
  /\ \A i \in 2..Len(started) : stageResult[started[i - 1]] = "ok"
  /\ \A s \in {"add_to_cart", "handle_login", "fill_checkout_details",
               "handle_payment"} :
       stageResult[s] # "none" => \E i \in 1..Len(started) : started[i] = s
  /\ checkoutResult # "none" =>
       (checkoutResult = "ok" <=>
          \A s \in {"add_to_cart", "handle_login", "fill_checkout_details",
                    "handle_payment"} : stageResult[s] = "ok")

C2_Witness ==
  /\ checkoutResult = "ok"
  /\ Len(started) = 4
  /\ stageResult["handle_payment"] = "ok"

C4_BoundedRetry ==
  wcResult # "none" /\ wcResolved /\ wcClicks > 0 =>
    /\ wcClicks <= 3
    /\ wcFail = "intercepted" => wcClicks = 3 /\ wcResult = "false" /\ retries = 0
    /\ wcResult = "false" => wcFail = "intercepted"
    /\ wcResult = "true" => wcClicks = (3 - retries) + 1 /\ retries >= 1

C4_Witness ==
  /\ wcResult = "false"
  /\ wcFail = "intercepted"
  /\ wcClicks = 3
  /\ ~coveredAll

\* C5: fallback.  When the primary locate timed out and no wait of
\* _refresh_and_retry resolved, _refresh_and_retry has made exactly 3
\* attempts, each a reload, the settle delay and a re-evaluation of the
\* condition; add_to_cart then reports failure (unless an operator interrupt
\* ends the run first) without any click and the pipeline halts after the
\* first stage.
C5_Fallback ==
  /\ rrResult = "false" =>
       /\ rrAttempt = 3
       /\ Cardinality({i \in 1..Len(rrLog) :
                         rrLog[i] \in {"refresh", "refresh_error"}}) = 3
  /\ ( /\ rrResult = "false"
       /\ primaryFail = "timeout"
       /\ \A i \in 1..Len(rrLog) : rrLog[i] \in {"refresh", "sleep", "wait_timeout"} )
     => /\ rrLog = <<"refresh", "sleep", "wait_timeout", "sleep",
                     "refresh", "sleep", "wait_timeout", "sleep",
                     "refresh", "sleep", "wait_timeout">>
        /\ atcWcCalls = 1
        /\ wcClicks = 0
        /\ started = <<"add_to_cart">>
        /\ checkoutResult # "ok"
        /\ pc # "atc_after_rr" /\ rcPending # "interrupt" =>
             stageResult["add_to_cart"] = "fail"

C5_Witness ==
  /\ rrResult = "false"
  /\ primaryFail = "timeout"
  /\ \A i \in 1..Len(rrLog) : rrLog[i] \in {"refresh", "sleep", "wait_timeout"}
  /\ stageResult["add_to_cart"] = "fail"
  /\ checkoutResult = "fail"
  /\ loggedStep = "add_to_cart"

\* C6: the refresh-and-retry fallback (a page reload) is entered only when
\* the primary locate-and-click failed by timing out, never when it failed
\* because every click was intercepted.
C6_FallbackOnlyOnTimeout ==
  (pc \in {"rr_refresh", "rr_wait", "atc_after_rr"} \/ rrLog # <<>>) =>
    primaryFail = "timeout"

\* C7: verified fill.  Once an address field has been written and holds a
\* value different from the intended one, then after the read-back (which
\* only an operator interrupt can forestall) the stage
\* has reported failure, that field is the last one written, every earlier
\* field was verified and the continue button was never clicked.
C7_VerifiedFill ==
  \A i \in 1..4 :
    LET f == <<"telephone", "postcode", "street[0]", "street[1]">>[i]
    IN ( /\ \E k \in 1..Len(written) : written[k] = f
         /\ formValue[f] # getenv(FieldEnv(f))
         /\ pc # "fc_verify"
         /\ rcPending # "interrupt" )
       => /\ stageResult["fill_checkout_details"] = "fail"
          /\ Len(written) = i
          /\ Len(verified) = i - 1
          /\ ~contClicked
          /\ checkoutResult # "ok"

C7_Witness ==
  /\ stageResult["fill_checkout_details"] = "fail"
  /\ written = <<"telephone", "postcode">>
  /\ verified = <<"telephone">>
  /\ formValue["postcode"] # <<>>
  /\ formValue["postcode"] # getenv("POSTCODE")
  /\ formValue["postcode"] = Truncate(getenv("POSTCODE"), Len(formValue["postcode"]))

\* C8: no false positive on a covered target.  When _wait_and_click has
\* returned after its target resolved and the target's hit-test centre was
\* covered at the hit test and at every click, the result is never success,
\* and when a click was issued the result is failure.
C8_NoFalsePositive ==
  wcResult # "none" /\ wcResolved /\ coveredAll =>
    /\ wcResult # "true"
    /\ wcClicks > 0 => wcResult = "false"

C8_Witness ==
  /\ wcResult = "false"
  /\ wcResolved
  /\ coveredAll
  /\ wcClicks = 3

\* C9: configuration pre-flight.  When any of the nine required settings is
\* missing or empty, the driver handle stays unset, no browser session is
\* created, nothing is navigated and no stage starts: the program is either
\* still constructing or has died of the configuration error.
C9_Preflight ==
  (\E v \in {"USERNAME", "PASS", "PHONE", "POSTCODE", "STREET1", "STREET2",
             "CARD_NUMBER", "CARD_EXPIRY", "CARD_CVC"} : config[v] = <<>>)
    => /\ driver = "none"
       /\ ~browserTouched
       /\ ~navigated
       /\ started = <<>>
       /\ pc \in {"main_construct", "config_error"}

C9_Witness ==
  /\ pc = "config_error"
  /\ config["CARD_EXPIRY"] = <<>>
  /\ driver = "none"

\* C10: every stage hands success or failure back to the step loop, never an
\* escaping error, whatever session call failed in it; so whenever the step
\* loop has ended in failure after a stage started, it logged that stage.
C10_StagesReturn ==
  /\ \A s \in {"add_to_cart", "handle_login", "fill_checkout_details",
               "handle_payment"} : stageResult[s] \in {"none", "ok", "fail"}
  /\ rcPending = "fail" /\ started # <<>> =>
       /\ loggedStep = started[Len(started)]
       /\ stageResult[loggedStep] = "fail"

C10_Witness ==
  /\ wcResult = "raise"
  /\ wcRet = "hl_after_login"
  /\ stageResult["handle_login"] = "fail"
  /\ loggedStep = "handle_login"
  /\ checkoutResult = "fail"

\* C11: on pipeline failure the browser is held open unconditionally: once
\* run_checkout has returned failure, driver.quit is never called.
C11_HeldOpenOnFailure ==
  checkoutResult = "fail" => driver # "quit"

\* C12: the browser is released only on the operator's confirmation:
\* driver.quit has been called only after the answer 'y' to the close prompt,
\* and never inside run_checkout, whose own hold loop is never entered.
C12_QuitOnlyOnConfirmation ==
  /\ driver = "quit" => answer = "y" /\ pc = "exit"
  /\ pc # "exit" => driver # "quit"
  /\ pc # "rc_hold"

C12_Witness ==
  /\ driver = "quit"
  /\ answer = "y"
  /\ checkoutResult = "ok"
  /\ pc = "exit"

\* C13: an interrupt delivered in main's hold-open loop after a successful
\* pipeline ends the wait and leads to driver.quit: a run that was
\* interrupted there has released the browser when the process exits.
C13_InterruptReleases ==
  pc = "exit" /\ interrupted /\ checkoutResult = "ok" => driver = "quit"

\* C14: once an interrupt has been delivered while a stage executes, the
\* pipeline issues no further fill, click or frame switch: from then on no
\* step is taken from a position that issues one.
C14_InterruptCancels ==
  [][ ( /\ stageInterrupts > 0
        /\ pc \in {"wc_click", "hl_fill_user", "hl_fill_pass", "fc_write",
                   "hp_switch", "hp_card_click", "hp_type", "hp_switch_back",
                   "hp_finally"} )
      => stageInterrupts' > stageInterrupts ]_vars

\* C15: bounded waiting.  The hold loop of run_checkout's finally block is
\* never entered, main's hold loop is entered only after a successful
\* pipeline, and once run_checkout has begun it always ends: it returns
\* success or failure, or an operator interrupt carries control to main's
\* close prompt.
C15_BoundedWaiting ==
  /\ [](pc # "rc_hold")
  /\ [](pc = "main_hold" => checkoutResult = "ok")
  /\ (pc = "rc_init") ~>
       ( \/ checkoutResult \in {"ok", "fail"}
         \/ (rcPending = "interrupt" /\ pc = "main_prompt") )

C15_Witness ==
  /\ pc = "main_hold"
  /\ checkoutResult = "ok"
  /\ stageResult["handle_payment"] = "ok"

\* C16: retry is triggered only by interception.  In one _wait_and_click at
\* most one click fails with another error, that click ends the call (the
\* error leaves it) and is the last click issued; a target whose condition
\* timed out is never clicked, and no click is issued before the target
\* resolved.
C16_RetryOnlyOnIntercept ==
  /\ clickErrors <= 1
  /\ clickErrors = 1 =>
       /\ wcResult = "raise"
       /\ pc # "wc_click"
       /\ wcClicks = (3 - retries) + 1
  /\ wcFail = "timeout" => wcClicks = 0 /\ ~wcResolved
  /\ wcClicks > 0 => wcResolved

C16_Witness ==
  /\ clickErrors = 1
  /\ wcClicks = 2
  /\ retries = 2
  /\ wcResult = "raise"

\* C17 as stated: after k typing steps the field holds its prior content
\* followed by the first k characters of the text, and each step dispatched
\* key-down, key-press, key-up, input in that sequence and then slept.
C17_KeysThenInput ==
  /\ \A i \in 1..3 :
       LET f == <<"card_input", "expiry_input", "cvv_input">>[i]
           text == getenv(<<"CARD_NUMBER", "CARD_EXPIRY", "CARD_CVC">>[i])
           typed == IF i < cardIdx THEN Len(text)
                    ELSE IF i = cardIdx THEN charIdx ELSE 0
       IN \E prior \in {<<>>, <<0>>} :
            cardValue[f] = prior \o SubSeq(text, 1, typed)
  /\ lastEvents \in {<<>>, <<"keydown", "keypress", "keyup", "input", "sleep">>}
  /\ charIdx > 0 => lastEvents # <<>>

\* C17 amended: after k typing steps the field holds its prior content
\* followed by the first k characters of the text (n steps in text order,
\* one character each), and each step dispatched input, key-down, key-press,
\* key-up in that sequence and then slept the per-character delay.
C17_SyntheticTyping ==
  /\ \A i \in 1..3 :
       LET f == <<"card_input", "expiry_input", "cvv_input">>[i]
           text == getenv(<<"CARD_NUMBER", "CARD_EXPIRY", "CARD_CVC">>[i])
           typed == IF i < cardIdx THEN Len(text)
                    ELSE IF i = cardIdx THEN charIdx ELSE 0
       IN \E prior \in {<<>>, <<0>>} :
            cardValue[f] = prior \o SubSeq(text, 1, typed)
  /\ lastEvents \in {<<>>, <<"input", "keydown", "keypress", "keyup", "sleep">>}
  /\ charIdx > 0 => lastEvents # <<>>

C17_Witness ==
  /\ pc = "hp_switch_back"
  /\ cardIdx = 4
  /\ cardValue["card_input"] = getenv("CARD_NUMBER")
  /\ cardValue["cvv_input"] = <<0>> \o getenv("CARD_CVC")
  /\ lastEvents = <<"input", "keydown", "keypress", "keyup", "sleep">>

\* C18: fill_checkout_details writes the fields in the order telephone,
\* postcode, street[0], street[1]; a field is written only when every
\* earlier field has been verified; the continue button is clicked only
\* after all four fields have been verified.
C18_FieldOrder ==
  /\ Len(written) <= 4
  /\ written = SubSeq(<<"telephone", "postcode", "street[0]", "street[1]">>,
                      1, Len(written))
  /\ Len(verified) <= Len(written)
  /\ verified = SubSeq(written, 1, Len(verified))
  /\ Len(written) <= Len(verified) + 1
  /\ \A k \in 1..Len(verified) :
       formValue[verified[k]] = getenv(FieldEnv(verified[k]))
  /\ contClicked => Len(verified) = 4

C18_Witness ==
  /\ contClicked
  /\ verified = <<"telephone", "postcode", "street[0]", "street[1]">>
  /\ stageResult["fill_checkout_details"] = "ok"

\* C19: the exit status tells the outcome: the process exits with status 0
\* exactly when the pipeline succeeded, so a failed run's status differs
\* from a successful run's.
C19_ExitStatusTellsOutcome ==
  pc = "exit" => (exitStatus = 0 <=> checkoutResult = "ok")

\* C20: in handle_login fill-username, fill-password and click-login are
\* issued in that order whatever the earlier ones returned (after the
\* username fill the password fill always follows, unless an operator
\* interrupt ends the run); when handle_login has returned after them and
\* any of the three failed, it returned failure and never waited for the
\* post-login URL.
C20_LoginSubActions ==
  /\ loginIssued \in {<<>>, <<"username">>, <<"username", "password", "idpwbtn">>}
  /\ Len(loginIssued) = 1 => pc = "hl_fill_pass" \/ rcPending = "interrupt"
  /\ Len(loginResults) <= Len(loginIssued)
  /\ urlWaited => loginResults = <<TRUE, TRUE, TRUE>>
  /\ (stageResult["handle_login"] # "none" /\ loginIssued # <<>>) =>
       /\ loginIssued = <<"username", "password", "idpwbtn">>
       /\ (\E i \in 1..Len(loginResults) : ~loginResults[i]) =>
            /\ stageResult["handle_login"] = "fail"
            /\ ~urlWaited

C20_Witness ==
  /\ stageResult["handle_login"] = "fail"
  /\ loginIssued = <<"username", "password", "idpwbtn">>
  /\ loginResults = <<FALSE, TRUE, TRUE>>
  /\ ~urlWaited

\* C21: optional sub-actions never fail their stage.  Whatever the cookie
\* consent click did (returned true, timed out or ran out of retries and
\* returned false, raised, or was interrupted), handle_login goes on to the
\* username fill: once the click has come back the stage is at the username
\* fill or has issued it (unless an interrupt ended the run there), and a
\* failed handle_login has issued its login sub-actions.  Whatever the billing
\* checkbox block did (set the box, found it selected, timed out waiting for
\* it, or failed in a session call), the step that leaves it goes to the wait
\* for the payment iframe with no failure pending and no stage result written.
C21_CookieContinues ==
  cookieResult # "none" =>
    /\ started = <<"add_to_cart", "handle_login">>
    /\ pc = "hl_fill_user" \/ loginIssued # <<>> \/ rcPending = "interrupt"
    /\ stageResult["handle_login"] = "fail" => loginIssued # <<>>

C21_CheckboxContinues ==
  (pc = "hp_checkbox" /\ stageInterrupts' = stageInterrupts) =>
    /\ checkboxOutcome' \in {"set", "already_selected", "wait_timeout", "error"}
    /\ pc' = "hp_iframe"
    /\ hpPending' = "none"
    /\ stageResult' = stageResult
    /\ rcPending' = rcPending

C21_OptionalNeverFails ==
  /\ []C21_CookieContinues
  /\ [][C21_CheckboxContinues]_vars

C21_Witness ==
  /\ checkboxOutcome \in {"wait_timeout", "error"}
  /\ stageResult["handle_payment"] = "ok"
  /\ stageResult["handle_login"] = "ok"

\* C22: synthetic typing appends and never clears, the address stage clears
\* and then sets.  Every card field holds what it held when it was located
\* followed by the characters typed into it so far, so a field typed to the
\* end equals the configured card value exactly when it was empty when
\* located.  An address field that has been cleared and written holds the
\* configured value cut to what the input accepts, whatever it held when it
\* was located, and every address field that passed verification holds
\* exactly the configured value.
C22_AppendVersusClearSet ==
  /\ \A i \in 1..Len(card_fields) :
       LET f == card_fields[i]
           text == getenv(CardEnv(f))
           typed == IF i < cardIdx THEN Len(text)
                    ELSE IF i = cardIdx THEN charIdx ELSE 0
       IN /\ cardPrior[f] \in PriorContents
          /\ cardValue[f] = cardPrior[f] \o SubSeq(text, 1, typed)
          /\ i < cardIdx => (cardValue[f] = text <=> cardPrior[f] = <<>>)
  /\ pc = "fc_verify" =>
       LET f == form_fields[fieldIdx + 1]
       IN /\ elemPrior \in PriorContents
          /\ formValue[f] = Truncate(getenv(FieldEnv(f)), elemCap)
  /\ \A k \in 1..Len(verified) :
       formValue[verified[k]] = getenv(FieldEnv(verified[k]))

C22_Witness ==
  /\ stageResult["handle_payment"] = "ok"
  /\ cardPrior["card_input"] = <<0>>
  /\ cardValue["card_input"] = <<0>> \o getenv("CARD_NUMBER")
  /\ cardValue["card_input"] # getenv("CARD_NUMBER")
  /\ cardPrior["expiry_input"] = <<>>
  /\ cardValue["expiry_input"] = getenv("CARD_EXPIRY")
  /\ \A f \in FieldNames : formValue[f] = getenv(FieldEnv(f))

====
